---- MODULE Spec2Model ----
(***************************************************************************)
(* The LLM provider adapters (Featherless, Ollama) and the chat            *)
(* orchestrator (ChatImpl) of the repository, as state machines.           *)
(*                                                                         *)
(*   Spec      one adapter call at a time: getDynamicModels (credential    *)
(*             resolution, the listing request, the abort timer, the       *)
(*             response handling) and getModelInstance.                    *)
(*   ChatSpec  the orchestrator: the selection state, the fetchModels      *)
(*             effect with its in-flight fetches, and the cookie effects.  *)
(***************************************************************************)
EXTENDS Integers, Sequences, FiniteSets, TLC

VARIABLES
    \* ---- one adapter call ----
    adapter,      \* name of the adapter the call runs on, or NoAdapter
    op,           \* "none", "getDynamicModels" or "getModelInstance"
    pc,           \* "idle", "awaitHeaders", "awaitBody", "done"
    creds,        \* the resolved { baseUrl, apiKey } of the call
    timerArmed,   \* the setTimeout(() => controller.abort(), 5000) is pending
    elapsed,      \* whole seconds since the listing request was issued
    response,     \* what the backend has sent so far
    requests,     \* HTTP requests issued by the call
    outcome,      \* how the call ended
    \* ---- the chat orchestrator ----
    model,        \* useState: selected model name
    provider,     \* useState: selected provider (by name)
    modelList,    \* useState: fetched ModelInfo list
    modelLoading, \* useState: provider name or Undefined
    cookies,      \* js-cookie: selectedModel, selectedProvider
    inflight,     \* fetchModels calls suspended at await getModelList(...)
    hist          \* bookkeeping of the run: what the last step did, counters

adapterVars == <<adapter, op, pc, creds, timerArmed, elapsed, response, requests, outcome>>
chatVars == <<model, provider, modelList, modelLoading, cookies, inflight, hist>>
vars == <<adapter, op, pc, creds, timerArmed, elapsed, response, requests, outcome,
          model, provider, modelList, modelLoading, cookies, inflight, hist>>

----------------------------------------------------------------------------
\* Bounds of the model.

\* Longest `models` array of a listing response, and longest model list
\* handed to the orchestrator.
MaxModels == 2
\* The clock of a call stops advancing here (seconds).
MaxClock == 7
\* Fetches the orchestrator may issue in one run.
MaxFetches == 4
\* User selections (provider or model) in one run.
MaxUserActions == 1

----------------------------------------------------------------------------
\* JavaScript values.

\* `undefined` where a string is expected.
Undefined == "__undefined__"

\* An optional non-string value: a missing property, or the value it holds.
Absent == [present |-> FALSE]
Some(v) == [present |-> TRUE, value |-> v]

\* !x for a string-or-undefined x.
Falsy(x) == x = Undefined \/ x = ""

\* a || b
OrElse(a, b) == IF Falsy(a) THEN b ELSE a

\* `${x}` in a template literal.
TemplateStr(x) == IF x = Undefined THEN "undefined" ELSE x

\* All sequences over S of length at most n.
SeqUpTo(S, n) == UNION {[1..k -> S] : k \in 0..n}

----------------------------------------------------------------------------
\* The two adapters.

Featherless == "Featherless"
Ollama == "Ollama"
Providers == {Featherless, Ollama}
NoAdapter == "none"

\* class field `name`
Name(p) == p

\* class field `config`
Config(p) ==
    IF p = Featherless
    THEN [baseUrlKey |-> "FEATHERLESS_API_BASE_URL",
          apiTokenKey |-> "FEATHERLESS_API_KEY",
          defaultBaseUrl |-> "https://api.featherless.ai/v1"]
    ELSE [baseUrlKey |-> "OLLAMA_API_BASE_URL",
          apiTokenKey |-> Undefined,
          defaultBaseUrl |-> "http://localhost:11434"]

\* The adapter has an API-token tier.
HasApiKey(p) == Config(p).apiTokenKey # Undefined

\* The fixed fallback of maxTokenAllowed (Ollama) and the abort delay in
\* seconds (Featherless: 5000 ms).
DefaultMaxTokens == 4096
TimeoutSeconds == 5

\* Names of server-environment variables, and the inputs of a call.
EnvKeys == {"FEATHERLESS_API_BASE_URL", "FEATHERLESS_API_KEY", "OLLAMA_API_BASE_URL"}
EmptyEnv == [k \in EnvKeys |-> Undefined]
EnvValue(k) ==
    IF k = "FEATHERLESS_API_KEY" THEN "key-from-env" ELSE "http://env-host"
ServerEnvs == {e \in [EnvKeys -> {Undefined, "key-from-env", "http://env-host"}] :
                 \A k \in EnvKeys : e[k] \in {Undefined, EnvValue(k)}}
ApiKeysInputs == [Providers -> {Undefined, "key-from-call"}]
SettingsInputs == [baseUrl : {Undefined, "http://settings-host"}]
ModelIds == {"m1", "m2"}

\* serverEnv?.[key]; a key the adapter does not have reads undefined.
EnvLookup(env, key) == IF key \in EnvKeys THEN env[key] ELSE Undefined

\* BaseProvider.getProviderBaseUrlAndKey: the first defined tier wins. Base
\* URL: the settings' base URL, the named environment variable, the
\* provider's hardcoded default. API token: the per-call key for this
\* provider, the named environment variable; no default tier.
getProviderBaseUrlAndKey(p, apiKeys, settings, serverEnv, defaultBaseUrlKey, defaultApiTokenKey) ==
    LET baseUrlKey == OrElse(Config(p).baseUrlKey, defaultBaseUrlKey)
        apiTokenKey == OrElse(Config(p).apiTokenKey, defaultApiTokenKey)
    IN [baseUrl |-> OrElse(settings.baseUrl,
                      OrElse(EnvLookup(serverEnv, baseUrlKey), Config(p).defaultBaseUrl)),
        apiKey |-> OrElse(apiKeys[Name(p)], EnvLookup(serverEnv, apiTokenKey))]

\* The credentials each method resolves. Ollama's getDynamicModels passes an
\* empty serverEnv and an empty token key.
ResolveForListing(p, apiKeys, settings, serverEnv) ==
    IF p = Featherless
    THEN getProviderBaseUrlAndKey(p, apiKeys, settings, serverEnv,
                                  "FEATHERLESS_API_BASE_URL", "FEATHERLESS_API_KEY")
    ELSE getProviderBaseUrlAndKey(p, apiKeys, settings, EmptyEnv, "OLLAMA_API_BASE_URL", "")

ResolveForInstance(p, apiKeys, settings, serverEnv) ==
    IF p = Featherless
    THEN getProviderBaseUrlAndKey(p, apiKeys, settings, serverEnv,
                                  "FEATHERLESS_API_BASE_URL", "FEATHERLESS_API_KEY")
    ELSE getProviderBaseUrlAndKey(p, apiKeys, settings, serverEnv, "OLLAMA_API_BASE_URL", "")

----------------------------------------------------------------------------
\* Listing responses.

\* Featherless: { id, details?: { name, size, context_length? } }.
FeatherlessDetails ==
    {Absent} \cup
    {Some([name |-> "Model One", size |-> "7B", context_length |-> c]) :
        c \in {Absent, Some(8192)}}
FeatherlessModels == [id : ModelIds, details : FeatherlessDetails]

\* Ollama: { name }.
OllamaModels == [name : ModelIds]

BackendModels(p) == IF p = Featherless THEN FeatherlessModels ELSE OllamaModels

\* Parsed JSON bodies: null, an object without `models`, an object whose
\* `models` is not an array, and an object with a `models` array.
JsonNull == [json |-> "null"]
JsonNoModels == [json |-> "object", models |-> Absent]
JsonModelsNotArray == [json |-> "object", models |-> [present |-> TRUE, isArray |-> FALSE]]
JsonListing(rs) ==
    [json |-> "object", models |-> [present |-> TRUE, isArray |-> TRUE, value |-> rs]]

\* data is an object and data.models is an array.
IsListing(v) == v.json = "object" /\ v.models.present /\ v.models.isArray

JsonValues(p) ==
    {JsonNull, JsonNoModels, JsonModelsNotArray}
    \cup {JsonListing(rs) : rs \in SeqUpTo(BackendModels(p), MaxModels)}

\* Body texts: text that is not JSON, or the serialisation of a JSON value.
NotJsonText == [text |-> "not json"]
JsonText(v) == [text |-> "json", of |-> v]
BodyTexts(p) == {NotJsonText} \cup {JsonText(v) : v \in JsonValues(p)}

\* JSON.parse / response.json(): throws on text that is not JSON.
JSONParse(t) ==
    IF t.text = "json" THEN [ok |-> TRUE, value |-> t.of] ELSE [ok |-> FALSE]

\* What the backend has sent: nothing, the status line and headers, or the
\* whole body as well.
NoResponse == [stage |-> "none"]
HeadersOnly(ok) == [stage |-> "headers", ok |-> ok]
FullResponse(ok, t) == [stage |-> "body", ok |-> ok, body |-> t]

\* Outcomes of a call.
Pending == [kind |-> "pending"]
Returned(ms) == [kind |-> "returned", models |-> ms]
Rejected == [kind |-> "rejected"]
Raised == [kind |-> "raised"]
Handle(baseURL, apiKey, m) ==
    [kind |-> "handle", baseURL |-> baseURL, apiKey |-> apiKey, model |-> m]
NoOutcome == [kind |-> "none"]

----------------------------------------------------------------------------
\* FeatherlessProvider.getDynamicModels

FeatherlessMissingCredsUrlOnly(c) == Falsy(c.baseUrl)

\* if (!baseUrl || !apiKey)
FeatherlessMissingCreds(c) == Falsy(c.baseUrl) \/ Falsy(c.apiKey)

\* data.models.map((model) => ({ ... })): model.details.name throws a
\* TypeError when `details` is missing.
FeatherlessMapThrows(rs) == \E i \in 1..Len(rs) : ~rs[i].details.present

FeatherlessMapModelByDetailsName(r) ==
    [name |-> r.details.value.name,
     label |-> r.details.value.name \o " (" \o r.details.value.size \o ")",
     provider |-> Name(Featherless),
     maxTokenAllowed |-> r.details.value.context_length]

FeatherlessMapModel(r) ==
    [name |-> r.id,
     label |-> r.details.value.name \o " (" \o r.details.value.size \o ")",
     provider |-> Name(Featherless),
     maxTokenAllowed |-> r.details.value.context_length]

\* Everything after `const text = await response.text()` on a success
\* status, the outer catch included.
FeatherlessHandleBody(t) ==
    LET parsed == JSONParse(t)
    IN IF ~parsed.ok THEN Returned(<<>>)                       \* inner catch
       ELSE IF parsed.value.json = "null" THEN Returned(<<>>)  \* TypeError, outer catch
       ELSE IF ~IsListing(parsed.value) THEN Returned(<<>>)    \* invalid format
       ELSE IF FeatherlessMapThrows(parsed.value.models.value)
            THEN Returned(<<>>)                                \* TypeError, outer catch
       ELSE Returned([i \in 1..Len(parsed.value.models.value) |->
                        FeatherlessMapModel(parsed.value.models.value[i])])

\* The outer catch: every error returns [].
FeatherlessOnError == Returned(<<>>)

\* clearTimeout(timeoutId) right after `await fetch(...)` resolves.
FeatherlessTimerAfterHeaders == FALSE

----------------------------------------------------------------------------
\* OllamaProvider.getDynamicModels

OllamaMapModel(r) ==
    [name |-> r.name,
     label |-> r.name,
     provider |-> Name(Ollama),
     maxTokenAllowed |-> Some(DefaultMaxTokens)]

\* Everything after `await response.json()`: the status is not looked at.
OllamaHandleBody(t) ==
    LET parsed == JSONParse(t)
    IN IF ~parsed.ok THEN Rejected                             \* json() rejects, rethrown
       ELSE IF ~IsListing(parsed.value) THEN Rejected          \* TypeError, rethrown
       ELSE Returned([i \in 1..Len(parsed.value.models.value) |->
                        OllamaMapModel(parsed.value.models.value[i])])

\* catch (error) { console.error(...); throw error; }
OllamaOnError == Rejected

----------------------------------------------------------------------------
\* getModelInstance

FeatherlessGetModelInstanceUnchecked(c, m) == Handle(c.baseUrl, c.apiKey, m)

\* Featherless: throws without credentials, else getOpenAILikeModel(...).
FeatherlessGetModelInstance(c, m) ==
    IF Falsy(c.baseUrl) \/ Falsy(c.apiKey) THEN Raised ELSE Handle(c.baseUrl, c.apiKey, m)

\* Ollama: ollama(model, ...) with config.baseURL = `${baseUrl}/api`.
OllamaGetModelInstance(c, m) == Handle(TemplateStr(c.baseUrl) \o "/api", Undefined, m)

----------------------------------------------------------------------------
\* One adapter call at a time.

AdapterIdle ==
    /\ adapter = NoAdapter
    /\ op = "none"
    /\ pc = "idle"
    /\ creds = [baseUrl |-> Undefined, apiKey |-> Undefined]
    /\ timerArmed = FALSE
    /\ elapsed = 0
    /\ response = NoResponse
    /\ requests = 0
    /\ outcome = NoOutcome

\* getDynamicModels up to its first suspension: resolve the credentials,
\* Featherless returns [] without them, otherwise the request is issued
\* (Featherless arms the abort timer, Ollama has none).
CallGetDynamicModels(p, apiKeys, settings, serverEnv) ==
    LET c == ResolveForListing(p, apiKeys, settings, serverEnv)
        stop == p = Featherless /\ FeatherlessMissingCreds(c)
    IN /\ pc = "idle"
       /\ adapter' = p
       /\ op' = "getDynamicModels"
       /\ creds' = c
       /\ elapsed' = 0
       /\ response' = NoResponse
       /\ pc' = IF stop THEN "done" ELSE "awaitHeaders"
       /\ outcome' = IF stop THEN Returned(<<>>) ELSE Pending
       /\ requests' = IF stop THEN 0 ELSE 1
       /\ timerArmed' = (~stop /\ p = Featherless)
       /\ UNCHANGED chatVars

\* fetch() rejects: a network error before any response.
FetchRejects ==
    /\ pc = "awaitHeaders"
    /\ pc' = "done"
    /\ outcome' = IF adapter = Featherless THEN FeatherlessOnError ELSE OllamaOnError
    /\ UNCHANGED <<adapter, op, creds, timerArmed, elapsed, response, requests>>
    /\ UNCHANGED chatVars

\* fetch() resolves with the status line and headers; the call goes on to
\* read the body (response.text() / response.json()).
HeadersArrive(ok) ==
    /\ pc = "awaitHeaders"
    /\ pc' = "awaitBody"
    /\ response' = HeadersOnly(ok)
    /\ timerArmed' = IF adapter = Featherless THEN FeatherlessTimerAfterHeaders ELSE timerArmed
    /\ UNCHANGED <<adapter, op, creds, elapsed, requests, outcome>>
    /\ UNCHANGED chatVars

\* The body arrives and the rest of the method runs to its return.
BodyArrives(t) ==
    /\ pc = "awaitBody"
    /\ pc' = "done"
    /\ response' = FullResponse(response.ok, t)
    /\ outcome' = IF adapter = Featherless
                  THEN (IF response.ok THEN FeatherlessHandleBody(t) ELSE Returned(<<>>))
                  ELSE OllamaHandleBody(t)
    /\ timerArmed' = FALSE
    /\ UNCHANGED <<adapter, op, creds, elapsed, requests>>
    /\ UNCHANGED chatVars

\* The connection breaks while the body is read.
BodyFails ==
    /\ pc = "awaitBody"
    /\ pc' = "done"
    /\ outcome' = IF adapter = Featherless THEN FeatherlessOnError ELSE OllamaOnError
    /\ timerArmed' = FALSE
    /\ UNCHANGED <<adapter, op, creds, elapsed, response, requests>>
    /\ UNCHANGED chatVars

\* The timer runs out: controller.abort() rejects the pending read with an
\* AbortError, which the outer catch turns into [].
TimerFires ==
    /\ timerArmed
    /\ elapsed >= TimeoutSeconds
    /\ pc \in {"awaitHeaders", "awaitBody"}
    /\ pc' = "done"
    /\ timerArmed' = FALSE
    /\ outcome' = FeatherlessOnError
    /\ UNCHANGED <<adapter, op, creds, elapsed, response, requests>>
    /\ UNCHANGED chatVars

\* A second passes with the backend silent. A due timer fires first.
Tick ==
    /\ pc \in {"awaitHeaders", "awaitBody"}
    /\ elapsed < MaxClock
    /\ ~(timerArmed /\ elapsed >= TimeoutSeconds)
    /\ elapsed' = elapsed + 1
    /\ UNCHANGED <<adapter, op, pc, creds, timerArmed, response, requests, outcome>>
    /\ UNCHANGED chatVars

\* getModelInstance: synchronous.
CallGetModelInstance(p, apiKeys, settings, serverEnv, m) ==
    LET c == ResolveForInstance(p, apiKeys, settings, serverEnv)
    IN /\ pc = "idle"
       /\ adapter' = p
       /\ op' = "getModelInstance"
       /\ creds' = c
       /\ pc' = "done"
       /\ outcome' = IF p = Featherless
                     THEN FeatherlessGetModelInstance(c, m)
                     ELSE OllamaGetModelInstance(c, m)
       /\ UNCHANGED <<timerArmed, elapsed, response, requests>>
       /\ UNCHANGED chatVars

\* The caller has the result; the adapter is ready for the next call.
CallEnds ==
    /\ pc = "done"
    /\ adapter' = NoAdapter
    /\ op' = "none"
    /\ pc' = "idle"
    /\ creds' = [baseUrl |-> Undefined, apiKey |-> Undefined]
    /\ timerArmed' = FALSE
    /\ elapsed' = 0
    /\ response' = NoResponse
    /\ requests' = 0
    /\ outcome' = NoOutcome
    /\ UNCHANGED chatVars

----------------------------------------------------------------------------
\* The chat orchestrator (ChatImpl).

\* What the orchestrator reads of a ModelInfo: its name and its provider.
\* The lists handed to it name no model of a provider twice.
ChatModelInfos == [name : ModelIds, provider : Providers]
ChatModelLists ==
    {ms \in SeqUpTo(ChatModelInfos, MaxModels) :
        \A i, j \in 1..Len(ms) : ms[i] = ms[j] => i = j}

\* DEFAULT_MODEL of ~/utils/constants; PROVIDER_LIST holds the two adapters.
DEFAULT_MODEL == "default-model"
PROVIDER_LIST == Providers

\* await getModelList(...): a list of ModelInfo, or a rejection.
FetchOk(ms) == [ok |-> TRUE, models |-> ms]
FetchFailed == [ok |-> FALSE]
FetchResults == {FetchOk(ms) : ms \in ChatModelLists} \cup {FetchFailed}

\* models.some((m) => m.name === model && m.provider === provider.name)
CurrentModelExists(models, m, p) ==
    \E i \in 1..Len(models) : models[i].name = m /\ models[i].provider = Name(p)

FirstModelOfAnyProvider(models, p) ==
    IF models = <<>> THEN Absent ELSE Some(models[1])

\* models.find((m) => m.provider === provider.name)
FirstModel(models, p) ==
    LET hits == {i \in 1..Len(models) : models[i].provider = Name(p)}
    IN IF hits = {} THEN Absent
       ELSE Some(models[CHOOSE i \in hits : \A j \in hits : i <= j])

ModelAfterFetchUnlessStale(f, res, sel) ==
    IF /\ res.ok
       /\ f.provider = sel.provider
       /\ ~CurrentModelExists(res.models, f.model, f.provider)
       /\ FirstModel(res.models, f.provider).present
    THEN FirstModel(res.models, f.provider).value.name
    ELSE sel.model

\* The selected model after the continuation of fetchModels `f` ran on
\* result `res`; `sel` is the selection state at that moment. The closure
\* reads the model and provider it captured, not the current ones.
ModelAfterFetch(f, res, sel) ==
    IF /\ res.ok
       /\ ~CurrentModelExists(res.models, f.model, f.provider)
       /\ FirstModel(res.models, f.provider).present
    THEN FirstModel(res.models, f.provider).value.name
    ELSE sel.model

\* setModelList(models) when the fetch resolved.
ModelListAfterFetch(res, cur) == IF res.ok THEN res.models ELSE cur

LoadingLeftAsIs == modelLoading

\* finally { setModelLoading(undefined) }
LoadingInFinally == Undefined

\* The dependency array [provider, apiKeys, model] of the fetchModels
\* effect: it runs again when the provider or the model changed (apiKeys
\* never changes).
EffectDepsChanged(p0, m0, p1, m1) == p0 # p1 \/ m0 # m1

\* The entry of `inflight` for a fetchModels call started under (p, m).
Fetch(p, m, cause) == [provider |-> p, model |-> m, cause |-> cause]

RemoveAt(q, i) == [j \in 1..(Len(q) - 1) |-> IF j < i THEN q[j] ELSE q[j + 1]]

\* The render that follows a state change from selection (p0, m0) to
\* (p1, m1), and its effects: fetchModels starts again when its
\* dependencies changed (setModelLoading(provider.name), then it suspends
\* at the await), and the two cookie effects write the selection.
\* `pending` are the fetches still in flight and `loading` the flag the
\* handler left.
RenderAndEffects(p0, m0, p1, m1, pending, loading, cause) ==
    /\ provider' = p1
    /\ model' = m1
    /\ inflight' = IF EffectDepsChanged(p0, m0, p1, m1)
                   THEN Append(pending, Fetch(p1, m1, cause))
                   ELSE pending
    /\ modelLoading' = IF EffectDepsChanged(p0, m0, p1, m1) THEN Name(p1) ELSE loading
    /\ EffectDepsChanged(p0, m0, p1, m1) => hist.issued < MaxFetches

\* The cookies after the cookie effects of a render; `direct` is what the
\* handler itself wrote to selectedModel.
CookiesAfter(p0, m0, p1, m1, direct) ==
    [selectedProvider |-> IF p0 # p1 THEN Name(p1) ELSE cookies.selectedProvider,
     selectedModel |-> IF m0 # m1 /\ ~Falsy(m1) THEN m1 ELSE direct]

\* The bookkeeping after a step. `same` tells whether every fetch that
\* settled since the last user action resolved with one and the same list:
\* each resolved list replaces modelList, so a later one is compared with it.
SameAfter(same, settled, res) ==
    /\ same
    /\ res.ok
    /\ settled > 0 => res.models = modelList

HistAfterUser(kind, starts) ==
    [kind |-> kind,
     fetch |-> Absent,
     res |-> Absent,
     modelAt |-> model,
     providerAt |-> provider,
     issued |-> hist.issued + (IF starts THEN 1 ELSE 0),
     userActions |-> hist.userActions + 1,
     lastUser |-> kind,
     quiet |-> inflight = <<>>,
     issuedSince |-> IF starts THEN 1 ELSE 0,
     settledSince |-> 0,
     same |-> TRUE,
     curDone |-> IF kind = "selectProvider" THEN FALSE ELSE hist.curDone]

HistAfterComplete(f, res, starts) ==
    [kind |-> "complete",
     fetch |-> Some(f),
     res |-> Some(res),
     modelAt |-> model,
     providerAt |-> provider,
     issued |-> hist.issued + (IF starts THEN 1 ELSE 0),
     userActions |-> hist.userActions,
     lastUser |-> hist.lastUser,
     quiet |-> hist.quiet,
     issuedSince |-> hist.issuedSince + (IF starts THEN 1 ELSE 0),
     settledSince |-> hist.settledSince + 1,
     same |-> SameAfter(hist.same, hist.settledSince, res),
     curDone |-> hist.curDone \/ f.provider = provider]

\* The component after it mounted: the selection read from the cookies
\* (or the defaults), the first fetchModels call suspended at its await,
\* and the cookies written by the two cookie effects.
ChatMounted ==
    /\ provider \in PROVIDER_LIST
    /\ model \in ModelIds \cup {DEFAULT_MODEL}
    /\ modelList = <<>>
    /\ modelLoading = Name(provider)
    /\ cookies = [selectedProvider |-> Name(provider), selectedModel |-> model]
    /\ inflight = <<Fetch(provider, model, "mount")>>
    /\ hist = [kind |-> "mount", fetch |-> Absent, res |-> Absent,
               modelAt |-> model, providerAt |-> provider,
               issued |-> 1, userActions |-> 0, lastUser |-> "mount",
               quiet |-> TRUE, issuedSince |-> 1, settledSince |-> 0, same |-> TRUE,
               curDone |-> FALSE]

\* The orchestrator left out of a run of the adapters.
ChatUnmounted ==
    /\ provider = Featherless
    /\ model = DEFAULT_MODEL
    /\ modelList = <<>>
    /\ modelLoading = Undefined
    /\ cookies = [selectedProvider |-> Undefined, selectedModel |-> Undefined]
    /\ inflight = <<>>
    /\ hist = [kind |-> "none"]

\* The user picks another provider: setProvider(p).
SelectProvider(p) ==
    /\ p # provider
    /\ hist.userActions < MaxUserActions
    /\ RenderAndEffects(provider, model, p, model, inflight, modelLoading, "provider")
    /\ cookies' = CookiesAfter(provider, model, p, model, cookies.selectedModel)
    /\ hist' = HistAfterUser("selectProvider", TRUE)
    /\ UNCHANGED modelList
    /\ UNCHANGED adapterVars

\* The user picks another of the listed models: setModel(m).
SelectModel(m) ==
    /\ m # model
    /\ \E i \in 1..Len(modelList) : modelList[i].name = m
    /\ hist.userActions < MaxUserActions
    /\ RenderAndEffects(provider, model, provider, m, inflight, modelLoading, "model")
    /\ cookies' = CookiesAfter(provider, model, provider, m, cookies.selectedModel)
    /\ hist' = HistAfterUser("selectModel", TRUE)
    /\ UNCHANGED modelList
    /\ UNCHANGED adapterVars

\* getModelList settles for the i-th fetch in flight and the rest of
\* fetchModels runs: the list is replaced, a missing model is replaced by
\* the provider's first one (and written to the cookie), the flag is
\* cleared; then the component renders and its effects run.
FetchComplete(i, res) ==
    LET f == inflight[i]
        m1 == ModelAfterFetch(f, res, [model |-> model, provider |-> provider])
        direct == IF /\ res.ok
                     /\ ~CurrentModelExists(res.models, f.model, f.provider)
                     /\ FirstModel(res.models, f.provider).present
                  THEN FirstModel(res.models, f.provider).value.name
                  ELSE cookies.selectedModel
    IN /\ i \in 1..Len(inflight)
       /\ modelList' = ModelListAfterFetch(res, modelList)
       /\ RenderAndEffects(provider, model, provider, m1,
                           RemoveAt(inflight, i), LoadingInFinally, "model")
       /\ cookies' = CookiesAfter(provider, model, provider, m1, direct)
       /\ hist' = HistAfterComplete(f, res, EffectDepsChanged(provider, model, provider, m1))
       /\ UNCHANGED adapterVars

----------------------------------------------------------------------------
\* The specifications.

Init == AdapterIdle /\ ChatUnmounted

Next ==
    \/ \E p \in Providers, k \in ApiKeysInputs, s \in SettingsInputs, e \in ServerEnvs :
          CallGetDynamicModels(p, k, s, e)
    \/ FetchRejects
    \/ \E ok \in BOOLEAN : HeadersArrive(ok)
    \/ \E t \in BodyTexts(adapter) : BodyArrives(t)
    \/ BodyFails
    \/ TimerFires
    \/ Tick
    \/ \E p \in Providers, k \in ApiKeysInputs, s \in SettingsInputs, e \in ServerEnvs,
          m \in ModelIds : CallGetModelInstance(p, k, s, e, m)
    \/ CallEnds

Spec == Init /\ [][Next]_vars

ChatInit == AdapterIdle /\ ChatMounted

ChatNext ==
    \/ \E p \in PROVIDER_LIST : SelectProvider(p)
    \/ \E m \in ModelIds : SelectModel(m)
    \/ \E i \in 1..Len(inflight), res \in FetchResults : FetchComplete(i, res)

ChatSpec == ChatInit /\ [][ChatNext]_vars

----------------------------------------------------------------------------
\* Claims about the adapters (checked under Spec).

Listing == op = "getDynamicModels"
Suspended == pc \in {"awaitHeaders", "awaitBody"}

\* The base URL or the API key of the call did not resolve.
CredsUnresolved == Falsy(creds.baseUrl) \/ Falsy(creds.apiKey)

\* C1 as claimed: on either adapter, a getDynamicModels call whose base URL
\* or API key did not resolve has returned [] without issuing a request.
C1_AnyAdapterNoCredsNoRequest ==
    (Listing /\ CredsUnresolved) =>
        (pc = "done" /\ outcome = Returned(<<>>) /\ requests = 0)

\* C1 (amended): on the Featherless adapter, a getDynamicModels call whose
\* base URL or API key did not resolve has returned [] without issuing a
\* request and without rejecting; the Ollama adapter, which has no API-token
\* tier and checks nothing, issues its request in every call.
C1_FeatherlessNoCredsNoRequest ==
    /\ (Listing /\ adapter = Featherless /\ CredsUnresolved) =>
           (pc = "done" /\ outcome = Returned(<<>>) /\ requests = 0)
    /\ (Listing /\ adapter = Ollama) => requests = 1

C1_Witness ==
    /\ Listing /\ adapter = Featherless
    /\ creds.apiKey = Undefined /\ creds.baseUrl # Undefined
    /\ pc = "done" /\ outcome = Returned(<<>>) /\ requests = 0

\* The listing request of the finished call failed: fetch rejected (no
\* response) or the connection broke before the body was read, or the
\* status was not a success, or the body is not JSON, or the parsed body has
\* no `models` array.
ListingFailed ==
    /\ Listing /\ pc = "done" /\ requests = 1
    /\ \/ response.stage \in {"none", "headers"}
       \/ response.stage = "body" /\ ~response.ok
       \/ response.stage = "body" /\ ~JSONParse(response.body).ok
       \/ response.stage = "body" /\ JSONParse(response.body).ok
             /\ ~IsListing(JSONParse(response.body).value)

\* C2: on either adapter, a getDynamicModels call whose listing request
\* failed returns [] and does not reject.
C2_FailuresReturnEmpty == ListingFailed => outcome = Returned(<<>>)

\* C3: on either adapter, a getDynamicModels call is not left suspended on
\* its listing request for more than 5 seconds, be it waiting for the
\* headers or for the body: by then the timeout has aborted the request.
C3_NoCallPendingPastTimeout ==
    (Listing /\ Suspended) => elapsed <= TimeoutSeconds

\* C4: getModelInstance raises when the base URL, or the API key of an
\* adapter that has one, did not resolve; it returns a handle only for a
\* defined base URL, and the handle is bound to that URL.
C4_InstanceNeedsCredentials ==
    (op = "getModelInstance" /\ pc = "done") =>
        /\ outcome.kind \in {"raised", "handle"}
        /\ (Falsy(creds.baseUrl) \/ (HasApiKey(adapter) /\ Falsy(creds.apiKey)))
              => outcome.kind = "raised"
        /\ outcome.kind = "handle" =>
              /\ ~Falsy(creds.baseUrl)
              /\ outcome.baseURL \in {creds.baseUrl, creds.baseUrl \o "/api"}

C4_Witness ==
    /\ op = "getModelInstance" /\ pc = "done"
    /\ adapter = Featherless /\ creds.apiKey = Undefined
    /\ outcome.kind = "raised"

\* The finished call got a valid listing response: a success status and a
\* JSON body whose `models` is an array of the backend's model records
\* (for Featherless: each with its `details`).
ValidListing ==
    /\ Listing /\ pc = "done"
    /\ response.stage = "body" /\ response.ok
    /\ JSONParse(response.body).ok
    /\ IsListing(JSONParse(response.body).value)
    /\ adapter = Featherless =>
          \A i \in 1..Len(JSONParse(response.body).value.models.value) :
             JSONParse(response.body).value.models.value[i].details.present

ListedRecords == JSONParse(response.body).value.models.value

\* The backend's identifier of a model record.
BackendId(r) == IF adapter = Featherless THEN r.id ELSE r.name

\* C5: for a valid listing response getDynamicModels returns one ModelInfo
\* per model record, in the response's order, each with the adapter's name
\* as `provider` and the backend's model identifier as `name`.
C5_OneModelInfoPerRecord ==
    ValidListing =>
        /\ outcome.kind = "returned"
        /\ Len(outcome.models) = Len(ListedRecords)
        /\ \A i \in 1..Len(ListedRecords) :
              /\ outcome.models[i].provider = adapter
              /\ outcome.models[i].name = BackendId(ListedRecords[i])

C5_Witness ==
    /\ ValidListing /\ adapter = Featherless
    /\ Len(ListedRecords) = 2
    /\ ListedRecords[1].id = "m2" /\ ListedRecords[2].id = "m1"
    /\ outcome.kind = "returned" /\ Len(outcome.models) = 2

\* The context length a model record reports, if it reports one.
ReportedContextLength(r) ==
    IF adapter = Featherless THEN r.details.value.context_length ELSE Absent

\* C6: every ModelInfo returned for a valid listing response has an integer
\* maxTokenAllowed: the context length its record reports, or 4096 when
\* the record reports none.
C6_MaxTokenAllowedIsInteger ==
    (ValidListing /\ outcome.kind = "returned"
        /\ Len(outcome.models) = Len(ListedRecords)) =>
        \A i \in 1..Len(ListedRecords) :
           /\ outcome.models[i].maxTokenAllowed.present
           /\ outcome.models[i].maxTokenAllowed.value \in Int
           /\ outcome.models[i].maxTokenAllowed.value =
                 IF ReportedContextLength(ListedRecords[i]).present
                 THEN ReportedContextLength(ListedRecords[i]).value
                 ELSE 4096

----------------------------------------------------------------------------
\* Claims about the chat orchestrator (checked under ChatSpec).

\* The last step was the completion of a fetch that resolved with a list.
CompletedWithList == hist.kind = "complete" /\ hist.res.value.ok
DoneFetch == hist.fetch.value
DoneList == hist.res.value.models

\* Model m is in list ms under provider p.
Listed(ms, m, p) == \E i \in 1..Len(ms) : ms[i] = [name |-> m, provider |-> Name(p)]

\* Model m is the first model of list ms whose provider is p.
IsFirstOf(ms, m, p) ==
    \E i \in 1..Len(ms) :
       /\ ms[i] = [name |-> m, provider |-> Name(p)]
       /\ \A j \in 1..(i - 1) : ms[j].provider # Name(p)

HasModelOf(ms, p) == \E i \in 1..Len(ms) : ms[i].provider = Name(p)

\* The cookies hold the selection.
SelectionPersisted ==
    cookies = [selectedProvider |-> Name(provider), selectedModel |-> model]

\* C7: when the fetch started by a change of provider completes with a list
\* and that provider is still the selected one: if the model selected at
\* the change is not in the list under the provider and the provider has a
\* model there, the selected model is now the first model of that provider
\* in the list; otherwise the selected model is what it was; and the
\* cookies selectedModel and selectedProvider hold the selection.
C7_ProviderChangeSelectsFirstModel ==
    (CompletedWithList /\ DoneFetch.cause = "provider" /\ DoneFetch.provider = provider) =>
        /\ IF ~Listed(DoneList, DoneFetch.model, provider) /\ HasModelOf(DoneList, provider)
           THEN IsFirstOf(DoneList, model, provider)
           ELSE model = hist.modelAt
        /\ SelectionPersisted

C7_Witness ==
    /\ CompletedWithList /\ DoneFetch.cause = "provider" /\ DoneFetch.provider = provider
    /\ ~Listed(DoneList, DoneFetch.model, provider)
    /\ Len(DoneList) = 2 /\ DoneList[1].provider # Name(provider)
    /\ DoneList[2].provider = Name(provider)
    /\ model = DoneList[2].name /\ model # hist.modelAt
    /\ SelectionPersisted

\* C8: the completion of a fetch started under a provider that is no longer
\* the selected one is not discarded: its list replaces the model list,
\* and if the model it captured is not in the list under the provider it
\* captured, the selected model and the selectedModel cookie become that
\* provider's first model.
C8_StaleFetchIsApplied ==
    (CompletedWithList /\ DoneFetch.provider # provider) =>
        /\ modelList = DoneList
        /\ (~Listed(DoneList, DoneFetch.model, DoneFetch.provider)
               /\ HasModelOf(DoneList, DoneFetch.provider)) =>
              /\ IsFirstOf(DoneList, model, DoneFetch.provider)
              /\ cookies.selectedModel = model

\* A fetch of the selected provider has completed, and then the fetch of
\* the provider selected before did: the selection is a model of the old
\* provider, not listed under the selected one, and it is persisted.
C8_Witness ==
    /\ CompletedWithList /\ DoneFetch.provider # provider
    /\ hist.curDone
    /\ modelList = DoneList
    /\ model # hist.modelAt
    /\ IsFirstOf(modelList, model, DoneFetch.provider)
    /\ ~Listed(modelList, model, provider)
    /\ SelectionPersisted

\* C9 as claimed: whenever a fetch is in flight the loading flag is set.
C9_LoadingWhileAnyFetchInFlight == inflight # <<>> => modelLoading # Undefined

\* C9 (amended): the loading flag is either undefined or the name of the
\* selected provider, and it is set only while the fetch started for the
\* current selection is in flight (so it is undefined when none is); the
\* completion of a fetch that starts no new fetch clears it, also while
\* other fetches are still pending.
C9_LoadingOnlyWhileLatestFetchInFlight ==
    /\ modelLoading \in {Undefined, Name(provider)}
    /\ modelLoading # Undefined =>
          /\ inflight # <<>>
          /\ inflight[Len(inflight)].provider = provider
          /\ inflight[Len(inflight)].model = model
    /\ (hist.kind = "complete" /\ model = hist.modelAt) => modelLoading = Undefined

C9_Witness ==
    /\ hist.kind = "complete"
    /\ inflight # <<>>
    /\ modelLoading = Undefined

\* Since the last user action every fetch resolved with one and the same
\* list.
SameListSince == hist.same

\* The run so far: the mount, then one change of provider.
SingleProviderChange == hist.userActions = 1 /\ hist.lastUser = "selectProvider"

\* No more than two fetches were issued since the change; with none left
\* in flight the flag is undefined and the selection is the persisted one.
QuiescesInTwo ==
    /\ hist.issuedSince <= 2
    /\ inflight = <<>> => (modelLoading = Undefined /\ SelectionPersisted)

\* C10 as claimed: after a single change of provider, every fetch
\* resolving with the same list, at most two fetches are issued and then
\* the orchestrator is quiescent.
C10_QuiescesAfterProviderChange ==
    (SingleProviderChange /\ SameListSince) => QuiescesInTwo

\* C10 (amended): the same, for a change of provider made while no fetch
\* is in flight.
C10_QuiescesAfterQuietProviderChange ==
    (SingleProviderChange /\ hist.quiet /\ SameListSince) => QuiescesInTwo

C10_Witness ==
    /\ SingleProviderChange /\ hist.quiet
    /\ hist.same /\ hist.settledSince = 2
    /\ hist.issuedSince = 2
    /\ inflight = <<>>
    /\ modelLoading = Undefined

====
